---- MODULE Spec2Model ----
(***************************************************************************)
(* Tezos account synchronisation (src/families/tezos/synchronisation.js):  *)
(*   txToOp                   the transaction classifier                   *)
(*   fetchAllTransactions     the paginated fetcher                        *)
(*   getAccountShape          the account shape builder                    *)
(*   reconciliateSubAccounts  the sub-account reconciler                   *)
(* Three specifications share the module: SpecTx (classifier), Spec (one   *)
(* getAccountShape invocation against an indexer) and SpecRec (consecutive *)
(* reconciliations).                                                       *)
(***************************************************************************)
EXTENDS Integers, Sequences

VARIABLES
  \* classifier
  tx, op,
  \* getAccountShape / fetchAllTransactions
  pc, initialAccount, indexer, accountReq, blockReq, apiAccount, blockHeight,
  requests, received, lastIds, anyFailed, stopSeen, lastId, txs, maxIteration, shape,
  \* reconciliateSubAccounts
  callerAccount, prevAccount, tokenAccounts, subAccounts, stats, syncNo

txVars == <<tx, op>>
syncVars == <<pc, initialAccount, indexer, accountReq, blockReq, apiAccount,
              blockHeight, requests, received, lastIds, anyFailed, stopSeen, lastId,
              txs, maxIteration, shape>>
recVars == <<callerAccount, prevAccount, tokenAccounts, subAccounts, stats, syncNo>>
vars == <<txVars, syncVars, recVars>>

\* JavaScript's undefined, for optional strings and sub-records.
Undefined == "undefined"

\* a value is truthy unless it is undefined or the empty string
Truthy(x) == x # Undefined /\ x # ""

\* a || b on strings
OrElse(a, b) == IF Truthy(a) THEN a ELSE b

\* the synchronised account: infoInput.address and infoInput.id
Address == "tz1A"
AccountId == "js:2:tezos:tz1A:"

Abs(n) == IF n < 0 THEN -n ELSE n

(***************************************************************************)
(* Raw transactions (APIOperation).  A party sub-record is represented by  *)
(* its address, Undefined when the sub-record is missing.  A missing       *)
(* numeric field reads as 0 everywhere the code uses it (x || 0), so       *)
(* numeric fields are integers.                                            *)
(***************************************************************************)
Addresses == {Undefined, Address, "tz1B"}
Statuses == {Undefined, "applied", "failed"}
Fees == {[bakerFee |-> b, allocationFee |-> a, storageFee |-> s] :
           b \in {0, 1}, a \in {0, 2}, s \in {0, 4}}

BaseTx == [type |-> "other", id |-> Undefined, hash |-> "h", status |-> Undefined,
           timestamp |-> 1,
           initiator |-> Undefined, sender |-> Undefined, target |-> Undefined,
           amount |-> 0, newDelegate |-> Undefined, balanceChange |-> 0,
           contractBalance |-> 0, originatedContract |-> Undefined, balance |-> 0,
           bakerFee |-> 0, allocationFee |-> 0, storageFee |-> 0]

WithFees(t, f) == [t EXCEPT !.bakerFee = f.bakerFee,
                            !.allocationFee = f.allocationFee,
                            !.storageFee = f.storageFee]

Transfers == {WithFees([BaseTx EXCEPT !.type = "transaction", !.status = s,
                          !.initiator = i, !.sender = f, !.target = t, !.amount = a], fe) :
                s \in Statuses, i \in Addresses, f \in Addresses, t \in Addresses,
                a \in {0, 8}, fe \in Fees}
Delegations == {WithFees([BaseTx EXCEPT !.type = "delegation", !.status = s,
                            !.sender = f, !.newDelegate = d], fe) :
                  s \in Statuses, f \in Addresses, d \in {Undefined, "tz1D"}, fe \in Fees}
Reveals == {WithFees([BaseTx EXCEPT !.type = "reveal", !.status = s, !.sender = f], fe) :
              s \in Statuses, f \in Addresses, fe \in Fees}
Migrations == {[BaseTx EXCEPT !.type = "migration", !.sender = f, !.balanceChange = c] :
                 f \in Addresses, c \in {-8, 0, 8}}
Originations == {WithFees([BaseTx EXCEPT !.type = "origination", !.status = s, !.sender = f,
                             !.contractBalance = c, !.originatedContract = k], fe) :
                   s \in Statuses, f \in Addresses, c \in {0, 8},
                   k \in {Undefined, "KT1"}, fe \in Fees}
Activations == {[BaseTx EXCEPT !.type = "activation", !.sender = f, !.balance = b] :
                  f \in Addresses, b \in {0, 8}}
Others == {[BaseTx EXCEPT !.type = "other", !.sender = f] : f \in Addresses}

RawTxs == Transfers \cup Delegations \cup Reveals \cup Migrations \cup Originations
            \cup Activations \cup Others

(***************************************************************************)
(* txToOp                                                                  *)
(***************************************************************************)
Discarded == [tag |-> "discard"]
Thrown == [tag |-> "throw"]

hasFailed(t) == IF Truthy(t.status) THEN t.status # "applied" ELSE FALSE

\* self tx, or initiator but not in from/to: we just pay fees in that case
JustPayFees(from, to, address) ==
  \/ from = address /\ to = address
  \/ from # address /\ to # address

\* TransferKind without the reclassification of a zero amount
TransferKindKeepsZero(t, address) ==
  IF JustPayFees(t.sender, t.target, address)
  THEN [type |-> "FEES", maybeValue |-> <<>>]
  ELSE [type |-> IF t.target = address THEN "IN" ELSE "OUT",
        maybeValue |-> IF ~hasFailed(t) THEN <<t.amount>> ELSE <<>>]

\* the type of a related transfer, with maybeValue (<<>> when left undefined)
TransferKind(t, address) ==
  LET from == t.sender
      to == t.target
  IN IF JustPayFees(from, to, address)
     THEN [type |-> "FEES", maybeValue |-> <<>>]
     ELSE IF ~hasFailed(t)
          THEN [type |-> IF t.amount = 0 THEN "FEES"
                         ELSE IF to = address THEN "IN" ELSE "OUT",
                maybeValue |-> <<t.amount>>]
          ELSE [type |-> IF to = address THEN "IN" ELSE "OUT", maybeValue |-> <<>>]

\* the switch on tx.type: the classification, a discard or a TypeError
SwitchOnType(t, address) ==
  CASE t.type = "transaction" ->
         IF t.sender # address /\ t.target # address /\ t.initiator # address
         THEN Discarded
         ELSE LET k == TransferKind(t, address)
              IN [tag |-> "op", type |-> k.type, maybeValue |-> k.maybeValue,
                  senders |-> <<OrElse(t.sender, OrElse(t.initiator, ""))>>,
                  recipients |-> <<OrElse(t.target, "")>>]
    [] t.type = "delegation" ->
         [tag |-> "op",
          type |-> IF Truthy(t.newDelegate) THEN "DELEGATE" ELSE "UNDELEGATE",
          maybeValue |-> <<>>, senders |-> <<address>>,
          recipients |-> <<IF Truthy(t.newDelegate) THEN t.newDelegate ELSE "">>]
    [] t.type = "reveal" ->
         [tag |-> "op", type |-> "REVEAL", maybeValue |-> <<>>,
          senders |-> <<address>>, recipients |-> <<address>>]
    [] t.type = "migration" ->
         [tag |-> "op", type |-> IF t.balanceChange < 0 THEN "OUT" ELSE "IN",
          maybeValue |-> <<Abs(t.balanceChange)>>,
          senders |-> <<address>>, recipients |-> <<address>>]
    [] t.type = "origination" ->
         IF t.originatedContract = Undefined
         THEN Thrown  \* tx.originatedContract.address on undefined
         ELSE [tag |-> "op", type |-> "CREATE", maybeValue |-> <<t.contractBalance>>,
               senders |-> <<address>>, recipients |-> <<t.originatedContract>>]
    [] t.type = "activation" ->
         [tag |-> "op", type |-> "IN", maybeValue |-> <<t.balance>>,
          senders |-> <<address>>, recipients |-> <<address>>]
    [] OTHER -> Discarded

\* fee: the baker fee, plus allocation and storage fees unless the tx failed
FeeOf(t) ==
  IF ~hasFailed(t) THEN t.bakerFee + t.allocationFee + t.storageFee ELSE t.bakerFee

\* SettledValue with the fee added whatever the type
SettledValueAlwaysFee(type, value, fee) == value + fee

\* if (type !== "IN") value = value.plus(fee)
SettledValue(type, value, fee) == IF type # "IN" THEN value + fee ELSE value

encodeOperationId(accountId, hash, type) == <<accountId, hash, type>>

txToOp(address, accountId, t) ==
  LET c == SwitchOnType(t, address)
  IN IF c.tag # "op" THEN c
     ELSE LET value == IF c.maybeValue = <<>> THEN 0 ELSE c.maybeValue[1]
              fee == FeeOf(t)
          IN IF c.type = "IN" /\ value = 0
             THEN Discarded  \* not interesting op
             ELSE [tag |-> "op",
                   id |-> encodeOperationId(accountId, t.hash, c.type),
                   hash |-> t.hash, type |-> c.type,
                   value |-> SettledValue(c.type, value, fee), fee |-> fee,
                   senders |-> c.senders, recipients |-> c.recipients,
                   date |-> t.timestamp, hasFailed |-> hasFailed(t)]

(***************************************************************************)
(* reconciliateSubAccounts                                                 *)
(* An object is a record [gen, props]: gen is the call that created it, so *)
(* two objects are the same instance iff they are equal records.  props    *)
(* maps every key to its value, Undefined for a key the object lacks.  A   *)
(* list is [defined, gen, items]: defined is FALSE for an undefined list.  *)
(***************************************************************************)
Ids == {"t1", "t2"}
KeyOrder == <<"id", "balance", "approvals">>
Props == [id : Ids, balance : {"b1", "b2"}, approvals : {Undefined, "a1"}]

NoList == [defined |-> FALSE, gen |-> 0, items |-> <<>>]
NoAccount == [exists |-> FALSE, subAccounts |-> NoList]

Range(s) == {s[i] : i \in 1..Len(s)}
IdsOf(items) == {items[i].props.id : i \in 1..Len(items)}

\* sequences over S without repeated ids, every length
RECURSIVE UniqueLists(_)
UniqueLists(S) ==
  {<<>>} \cup UNION {{<<o>> \o l : l \in UniqueLists({x \in S : x.props.id # o.props.id})} :
                      o \in S}

RECURSIVE Concat(_)
Concat(ss) == IF ss = <<>> THEN <<>> ELSE Head(ss) \o Concat(Tail(ss))

\* initialSubAccounts?.find((a) => a.id === ta.id), <<>> when nothing is found
Find(initialSubAccounts, ta) ==
  IF ~initialSubAccounts.defined THEN <<>>
  ELSE LET hits == SelectSeq(initialSubAccounts.items, LAMBDA a : a.props.id = ta.props.id)
       IN IF hits = <<>> THEN <<>> ELSE <<Head(hits)>>

\* for (let k in existing) if (existing[k] !== ta[k]): the keys that differ, in order
ChangedKeys(existing, ta) ==
  IF existing = ta THEN <<>>
  ELSE SelectSeq(KeyOrder, LAMBDA k : existing.props[k] # Undefined
                                       /\ existing.props[k] # ta.props[k])

\* the callback of tokenAccounts.map: the entry returned, and what it records
MapEntry(ta, initialSubAccounts) ==
  LET found == Find(initialSubAccounts, ta)
  IN IF found # <<>>
     THEN LET existing == found[1]
              changedKeys == ChangedKeys(existing, ta)
          IN IF changedKeys = <<>>
             THEN [out |-> existing, changed |-> FALSE, notes |-> <<>>]
             ELSE [out |-> ta, changed |-> TRUE,
                   notes |-> <<<<"field changed", Head(changedKeys), ta.props.id>>>>]
     ELSE [out |-> ta, changed |-> TRUE,
           notes |-> <<<<"new token account", ta.props.id>>>>]

\* LengthDiffer with the length comparison left out
LengthDifferNever(tokens, initialSubAccounts) == FALSE

\* initialSubAccounts && tokenAccounts.length !== initialSubAccounts.length
LengthDiffer(tokens, initialSubAccounts) ==
  initialSubAccounts.defined /\ Len(tokens) # Len(initialSubAccounts.items)

\* the returned list and the change notes; a list newly built by the call has gen newGen
reconciliateSubAccounts(tokens, account, newGen) ==
  IF account.exists
  THEN LET initialSubAccounts == account.subAccounts
           lengthDiffer == LengthDiffer(tokens, initialSubAccounts)
           entries == [i \in 1..Len(tokens) |-> MapEntry(tokens[i], initialSubAccounts)]
           anySubAccountHaveChanged ==
             lengthDiffer \/ \E i \in 1..Len(tokens) : entries[i].changed
           notes == (IF lengthDiffer THEN <<<<"length differ">>>> ELSE <<>>)
                      \o Concat([i \in 1..Len(tokens) |-> entries[i].notes])
       IN IF ~anySubAccountHaveChanged /\ initialSubAccounts.defined
          THEN [subAccounts |-> initialSubAccounts, stats |-> notes]
          ELSE [subAccounts |-> [defined |-> TRUE, gen |-> newGen,
                                 items |-> [i \in 1..Len(tokens) |-> entries[i].out]],
                stats |-> notes]
  ELSE [subAccounts |-> [defined |-> TRUE, gen |-> newGen, items |-> tokens],
        stats |-> <<>>]

\* number of reconciliations in a run
MaxSyncs == 2

\* objects a derivation can produce at call n: fresh ones, or the caller's own
Derivable(account, n) ==
  {[gen |-> n, props |-> p] : p \in Props} \cup Range(account.subAccounts.items)

RecInit ==
  /\ callerAccount \in {NoAccount, [exists |-> TRUE, subAccounts |-> NoList]}
        \cup {[exists |-> TRUE, subAccounts |-> [defined |-> TRUE, gen |-> 0, items |-> l]] :
                l \in UniqueLists({[gen |-> 0, props |-> p] : p \in Props})}
  /\ prevAccount = NoAccount
  /\ tokenAccounts = <<>>
  /\ subAccounts = NoList
  /\ stats = <<>>
  /\ syncNo = 0

\* a sync derives token accounts and reconciles them with the caller's account
Reconciliate ==
  /\ syncNo < MaxSyncs
  /\ \E tokens \in UniqueLists(Derivable(callerAccount, syncNo + 1)) :
       LET r == reconciliateSubAccounts(tokens, callerAccount, syncNo + 1)
       IN /\ tokenAccounts' = tokens
          /\ subAccounts' = r.subAccounts
          /\ stats' = r.stats
  /\ prevAccount' = callerAccount
  /\ syncNo' = syncNo + 1
  /\ UNCHANGED callerAccount

\* the caller adopts the reconciled sub-accounts as its account's
Adopt ==
  /\ syncNo > 0
  /\ callerAccount # [exists |-> TRUE, subAccounts |-> subAccounts]
  /\ callerAccount' = [exists |-> TRUE, subAccounts |-> subAccounts]
  /\ UNCHANGED <<prevAccount, tokenAccounts, subAccounts, stats, syncNo>>

(***************************************************************************)
(* The indexer (api/tzkt): account metadata, block count and pages of raw  *)
(* transactions.  The page it answers is a function of the cursor it is    *)
(* asked with; the function is fixed the first time a cursor is asked.     *)
(***************************************************************************)
Cursors == {Undefined, "c1", "c2"}

ItemOut == WithFees([BaseTx EXCEPT !.type = "transaction", !.id = "c1", !.hash = "h1",
                       !.status = "applied", !.sender = Address, !.target = "tz1B",
                       !.amount = 8, !.timestamp = 1],
                    [bakerFee |-> 1, allocationFee |-> 0, storageFee |-> 0])
ItemIn == [BaseTx EXCEPT !.type = "transaction", !.id = "c2", !.hash = "h2",
             !.status = "applied", !.sender = "tz1B", !.target = Address,
             !.amount = 8, !.timestamp = 2]
ItemNoId == [BaseTx EXCEPT !.type = "other", !.id = Undefined, !.hash = "h0", !.timestamp = 3]
Items == {ItemOut, ItemIn, ItemNoId}

\* items per page
MaxPageLen == 2

Pages == UNION {[1..n -> Items] : n \in 0..MaxPageLen}

ApiAccounts == {[type |-> t, balance |-> 5, revealed |-> TRUE] :
                  t \in {"empty", "user", "delegate"}}
NoApiAccount == [type |-> Undefined, balance |-> 0, revealed |-> FALSE]

(***************************************************************************)
(* mergeOps (bridge/jsHelpers): the stable operations with the new ones    *)
(* that are not among them, most recent first.                             *)
(***************************************************************************)
RECURSIVE InsertByDate(_, _)
InsertByDate(ops, o) ==
  IF ops = <<>> THEN <<o>>
  ELSE IF Head(ops).date < o.date THEN <<o>> \o ops
       ELSE <<Head(ops)>> \o InsertByDate(Tail(ops), o)

RECURSIVE mergeOps(_, _)
mergeOps(existing, newFetched) ==
  IF newFetched = <<>> THEN existing
  ELSE LET o == Head(newFetched)
           known == \E i \in 1..Len(existing) : existing[i].id = o.id
       IN mergeOps(IF known THEN existing ELSE InsertByDate(existing, o), Tail(newFetched))

(***************************************************************************)
(* fetchAllTransactions                                                    *)
(***************************************************************************)
\* let maxIteration = 20; // safe limit
MaxIteration == 20

\* Accumulate that keeps the last page only (txs = r)
AccumulateLastPage(acc, r) == r

\* txs = txs.concat(r)
Accumulate(acc, r) == acc \o r

\* LoopAgain testing the count before decrementing it (maxIteration--)
LoopAgainPostDecrement(count) == [count |-> count - 1, again |-> count # 0]

\* while (--maxIteration): the decremented count, and whether the loop goes on
LoopAgain(count) == [count |-> count - 1, again |-> count - 1 # 0]

\* one turn of the do-while loop on a received page r:
\* the new locals, and whether the function returns or asks for another page
LoopTurn(acc, cursor, count, r) ==
  IF Len(r) = 0 THEN [txs |-> acc, lastId |-> cursor, count |-> count, done |-> TRUE]
  ELSE LET all == Accumulate(acc, r)
           last == all[Len(all)].id
       IN IF ~Truthy(last)
          THEN [txs |-> all, lastId |-> last, count |-> count, done |-> TRUE]
          ELSE LET w == LoopAgain(count)
               IN [txs |-> all, lastId |-> last, count |-> w.count, done |-> ~w.again]

(***************************************************************************)
(* getAccountShape                                                         *)
(***************************************************************************)
NoShape == [tag |-> "none"]
Now == "now"

NoInitialAccount == [exists |-> FALSE, operations |-> <<>>]

\* initialAccount ? initialAccount.operations : []
StableOperations(account) == IF account.exists THEN account.operations ELSE <<>>

\* AllResolved that waits for the account metadata only
AllResolvedAccountOnly(a, b) == a = "done"

\* Promise.all resolves once both requests have resolved
AllResolved(a, b) == a = "done" /\ b = "done"

\* Promise.all rejects as soon as one request has rejected
AnyRejected(a, b) == a = "failed" \/ b = "failed"

\* apiOperations.map(txToOp(infoInput)).filter(Boolean) and the shape built from it
BuildShape(account, api, height, apiOperations) ==
  LET mapped == [i \in 1..Len(apiOperations) |-> txToOp(Address, AccountId, apiOperations[i])]
      newOps == SelectSeq(mapped, LAMBDA o : o.tag = "op")
  IN IF \E i \in 1..Len(mapped) : mapped[i] = Thrown
     THEN [pc |-> "failed", shape |-> NoShape]
     ELSE [pc |-> "returned",
           shape |-> [tag |-> "shape",
                      operations |-> mergeOps(StableOperations(account), newOps),
                      balance |-> api.balance, subAccounts |-> <<>>,
                      spendableBalance |-> api.balance, blockHeight |-> height,
                      lastSyncDate |-> Now,
                      tezosResources |-> [revealed |-> api.revealed]]]

\* PageRejected that swallows the rejection and builds a shape from the pages so far
PageRejectedSwallowed(account, api, height, acc) == BuildShape(account, api, height, acc)

\* a rejected await of api.getAccountOperations: the rejection propagates
PageRejected(account, api, height, acc) == [pc |-> "failed", shape |-> NoShape]

\* the operations an account can hold before the sync
InitialAccounts ==
  {NoInitialAccount,
   [exists |-> TRUE, operations |-> <<txToOp(Address, AccountId, ItemOut)>>]}

SyncInit ==
  /\ pc = "start"
  /\ initialAccount \in InitialAccounts
  /\ indexer = [c \in {} |-> <<>>]
  /\ accountReq = "none" /\ blockReq = "none"
  /\ apiAccount = NoApiAccount /\ blockHeight = 0
  /\ requests = <<>> /\ received = <<>> /\ lastIds = <<>>
  /\ anyFailed = FALSE /\ stopSeen = FALSE
  /\ lastId = Undefined /\ txs = <<>> /\ maxIteration = 0
  /\ shape = NoShape

\* lines 27-37: both requests are issued, none is awaited yet
Start ==
  /\ pc = "start"
  /\ accountReq' = "pending" /\ blockReq' = "pending"
  /\ pc' = "awaitAll"
  /\ UNCHANGED <<initialAccount, indexer, apiAccount, blockHeight, requests, received,
                 lastIds, anyFailed, stopSeen, lastId, txs, maxIteration, shape>>

AccountReturns ==
  /\ accountReq = "pending"
  /\ accountReq' = "done"
  /\ apiAccount' \in ApiAccounts
  /\ UNCHANGED <<pc, initialAccount, indexer, blockReq, blockHeight, requests, received,
                 lastIds, anyFailed, stopSeen, lastId, txs, maxIteration, shape>>

AccountFails ==
  /\ accountReq = "pending"
  /\ accountReq' = "failed"
  /\ anyFailed' = TRUE
  /\ UNCHANGED <<pc, initialAccount, indexer, blockReq, apiAccount, blockHeight, requests,
                 received, lastIds, stopSeen, lastId, txs, maxIteration, shape>>

BlockReturns ==
  /\ blockReq = "pending"
  /\ blockReq' = "done"
  /\ blockHeight' = 100
  /\ UNCHANGED <<pc, initialAccount, indexer, accountReq, apiAccount, requests, received,
                 lastIds, anyFailed, stopSeen, lastId, txs, maxIteration, shape>>

BlockFails ==
  /\ blockReq = "pending"
  /\ blockReq' = "failed"
  /\ anyFailed' = TRUE
  /\ UNCHANGED <<pc, initialAccount, indexer, accountReq, apiAccount, blockHeight, requests,
                 received, lastIds, stopSeen, lastId, txs, maxIteration, shape>>

\* line 39: the await of Promise.all throws
AwaitRejects ==
  /\ pc = "awaitAll"
  /\ AnyRejected(accountReq, blockReq)
  /\ pc' = "failed"
  /\ UNCHANGED <<initialAccount, indexer, accountReq, blockReq, apiAccount, blockHeight,
                 requests, received, lastIds, anyFailed, stopSeen, lastId, txs,
                 maxIteration, shape>>

\* lines 39-58 and 205-209: the await resumes, up to the first page request
AwaitResolves ==
  /\ pc = "awaitAll"
  /\ AllResolved(accountReq, blockReq)
  /\ IF apiAccount.type = "empty"
     THEN /\ pc' = "returned"
          /\ shape' = [tag |-> "minimal", blockHeight |-> blockHeight, lastSyncDate |-> Now]
          /\ UNCHANGED <<requests, lastId, txs, maxIteration>>
     ELSE IF apiAccount.type # "user"
          THEN /\ pc' = "failed"  \* invariant(apiAccount.type === "user")
               /\ UNCHANGED <<shape, requests, lastId, txs, maxIteration>>
          ELSE /\ pc' = "paging"
               /\ txs' = <<>>
               /\ maxIteration' = MaxIteration
               /\ lastId' = Undefined
               /\ requests' = <<Undefined>>
               /\ UNCHANGED shape
  /\ UNCHANGED <<initialAccount, indexer, accountReq, blockReq, apiAccount, blockHeight,
                 received, lastIds, anyFailed, stopSeen>>

\* lines 209-218 and 60-83: a page arrives; the loop asks again, or the shape is built
PageReturns ==
  /\ pc = "paging"
  /\ \E r \in (IF lastId \in DOMAIN indexer THEN {indexer[lastId]} ELSE Pages) :
       LET t == LoopTurn(txs, lastId, maxIteration, r)
           all == received \o r
           end == IF t.done
                  THEN BuildShape(initialAccount, apiAccount, blockHeight, t.txs)
                  ELSE [pc |-> "paging", shape |-> shape]
       IN /\ indexer' = [c \in DOMAIN indexer \cup {lastId} |->
                           IF c = lastId THEN r ELSE indexer[c]]
          /\ received' = all
          /\ lastIds' = Append(lastIds, IF all = <<>> THEN Undefined ELSE all[Len(all)].id)
          /\ stopSeen' = (stopSeen \/ r = <<>> \/ ~Truthy(all[Len(all)].id))
          /\ txs' = t.txs
          /\ lastId' = t.lastId
          /\ maxIteration' = t.count
          /\ requests' = IF t.done THEN requests ELSE Append(requests, t.lastId)
          /\ pc' = end.pc
          /\ shape' = end.shape
  /\ UNCHANGED <<initialAccount, accountReq, blockReq, apiAccount, blockHeight, anyFailed>>

\* line 209: the page request fails
PageFails ==
  /\ pc = "paging"
  /\ anyFailed' = TRUE
  /\ LET end == PageRejected(initialAccount, apiAccount, blockHeight, txs)
     IN pc' = end.pc /\ shape' = end.shape
  /\ UNCHANGED <<initialAccount, indexer, accountReq, blockReq, apiAccount, blockHeight,
                 requests, received, lastIds, stopSeen, lastId, txs, maxIteration>>

(***************************************************************************)
(* The classifier applied to one raw transaction                           *)
(***************************************************************************)
NotClassified == [tag |-> "none"]

TxInit == tx \in RawTxs /\ op = NotClassified

ClassifyTx ==
  /\ op = NotClassified
  /\ op' = txToOp(Address, AccountId, tx)
  /\ UNCHANGED tx

\* the variables of the other specifications, at rest
TxIdle == tx = BaseTx /\ op = NotClassified
RecIdle ==
  /\ callerAccount = NoAccount /\ prevAccount = NoAccount /\ tokenAccounts = <<>>
  /\ subAccounts = NoList /\ stats = <<>> /\ syncNo = 0
SyncIdle ==
  /\ pc = "idle" /\ initialAccount = NoInitialAccount /\ indexer = [c \in {} |-> <<>>]
  /\ accountReq = "none" /\ blockReq = "none"
  /\ apiAccount = NoApiAccount /\ blockHeight = 0
  /\ requests = <<>> /\ received = <<>> /\ lastIds = <<>>
  /\ anyFailed = FALSE /\ stopSeen = FALSE
  /\ lastId = Undefined /\ txs = <<>> /\ maxIteration = 0
  /\ shape = NoShape

\* one getAccountShape invocation against an indexer
Init == SyncInit /\ TxIdle /\ RecIdle
Next ==
  \/ Start /\ UNCHANGED <<txVars, recVars>>
  \/ AccountReturns /\ UNCHANGED <<txVars, recVars>>
  \/ AccountFails /\ UNCHANGED <<txVars, recVars>>
  \/ BlockReturns /\ UNCHANGED <<txVars, recVars>>
  \/ BlockFails /\ UNCHANGED <<txVars, recVars>>
  \/ AwaitRejects /\ UNCHANGED <<txVars, recVars>>
  \/ AwaitResolves /\ UNCHANGED <<txVars, recVars>>
  \/ PageReturns /\ UNCHANGED <<txVars, recVars>>
  \/ PageFails /\ UNCHANGED <<txVars, recVars>>
Spec == Init /\ [][Next]_vars

\* the classifier on every raw transaction
InitTx == TxInit /\ SyncIdle /\ RecIdle
NextTx == ClassifyTx /\ UNCHANGED <<syncVars, recVars>>
SpecTx == InitTx /\ [][NextTx]_vars

\* consecutive reconciliations
InitRec == RecInit /\ TxIdle /\ SyncIdle
NextRec ==
  \/ Reconciliate /\ UNCHANGED <<txVars, syncVars>>
  \/ Adopt /\ UNCHANGED <<txVars, syncVars>>
SpecRec == InitRec /\ [][NextRec]_vars

(***************************************************************************)
(* Properties of txToOp (checked under SpecTx)                             *)
(***************************************************************************)
Classified == op # NotClassified

\* none of the party addresses is the account's (missing sub-records included)
Unrelated(t) == t.initiator # Address /\ t.sender # Address /\ t.target # Address

\* C5: every raw transaction of any kind in which no party address equals the
\* account address, or whose party sub-records are missing, is discarded by
\* txToOp: no operation is produced and nothing is thrown.
C5_UnrelatedDiscarded == (Classified /\ Unrelated(tx)) => op = Discarded

\* the principal amount of a raw transaction classified as type
Principal(t, type) ==
  CASE t.type = "transaction" -> IF hasFailed(t) \/ type = "FEES" THEN 0 ELSE t.amount
    [] t.type = "migration" -> Abs(t.balanceChange)
    [] t.type = "origination" -> t.contractBalance
    [] t.type = "activation" -> t.balance
    [] OTHER -> 0

\* C8: for every operation txToOp emits, value is the principal alone when the
\* type is IN, and principal + the operation's fee for every other type; the
\* principal is zero for FEES, DELEGATE, UNDELEGATE, REVEAL and failed transfers.
C8_ValueIncludesFee ==
  (Classified /\ op.tag = "op") =>
    /\ op.type \in {"IN", "OUT", "FEES", "DELEGATE", "UNDELEGATE", "REVEAL", "CREATE"}
    /\ op.value = IF op.type = "IN" THEN Principal(tx, op.type)
                  ELSE Principal(tx, op.type) + op.fee
    /\ op.type \in {"FEES", "DELEGATE", "UNDELEGATE", "REVEAL"} => Principal(tx, op.type) = 0

\* an incoming operation that carries a fee, reported apart from its value
C8_Witness ==
  Classified /\ op.tag = "op" /\ op.type = "IN" /\ op.fee > 0 /\ op.value = 8

ZeroAmountTransfer(t) == t.type = "transaction" /\ t.amount = 0 /\ ~hasFailed(t)

\* C9 as stated: every raw transfer with zero amount and non-failed status is
\* classified as an operation of type FEES.
C9_ZeroAmountIsFees ==
  (Classified /\ ZeroAmountTransfer(tx)) => (op.tag = "op" /\ op.type = "FEES")

\* C9 amended: a raw transfer with zero amount and non-failed status is
\* classified FEES (never IN or OUT) when one of its parties is the account,
\* and is discarded when none is.
C9_ZeroAmountIsFeesOrDiscarded ==
  (Classified /\ ZeroAmountTransfer(tx)) =>
    IF Unrelated(tx) THEN op = Discarded ELSE (op.tag = "op" /\ op.type = "FEES")

\* a zero-amount applied transfer received by the account, classified FEES
C9_Witness ==
  /\ Classified /\ ZeroAmountTransfer(tx) /\ tx.status = "applied"
  /\ tx.target = Address /\ tx.sender = "tz1B"
  /\ op.tag = "op" /\ op.type = "FEES"

(***************************************************************************)
(* Properties of getAccountShape and fetchAllTransactions (under Spec)     *)
(***************************************************************************)
\* C3: fetchAllTransactions issues at most 20 page requests, one at a time, so
\* it terminates when every request returns; when no page is empty and the last
\* accumulated item always has a cursor id it returns after exactly 20 requests.
C3_PageBound ==
  /\ Len(requests) <= MaxIteration
  /\ pc = "paging" => Len(requests) = Len(lastIds) + 1
  /\ (pc = "returned" /\ shape.tag = "shape" /\ ~stopSeen) =>
       (Len(requests) = MaxIteration /\ Len(lastIds) = MaxIteration)

\* a fetch that ran into the safety limit
C3_Witness ==
  pc = "returned" /\ shape.tag = "shape" /\ ~stopSeen /\ Len(requests) = MaxIteration

\* C4: once a page is empty or the last accumulated item has no cursor id, no
\* further page is requested and the fetch returns, without failing, exactly the
\* concatenation in fetch order of the pages received; each request after the
\* first carries the id of the last item accumulated so far.
C4_StopsAndReturnsAll ==
  /\ stopSeen => (pc = "returned" /\ shape.tag = "shape" /\ Len(requests) = Len(lastIds))
  /\ (pc = "returned" /\ shape.tag = "shape") => txs = received
  /\ \A k \in 1..Len(requests) :
       requests[k] = IF k = 1 THEN Undefined ELSE lastIds[k - 1]

\* a fetch stopped on the second page by an item without cursor id
C4_Witness ==
  /\ stopSeen /\ pc = "returned" /\ Len(requests) = 2
  /\ Len(received) > Len(indexer[Undefined])
  /\ received[Len(received)].id = Undefined
  /\ txs = received

\* C6: when an indexer call fails the invocation fails as a whole and returns no
\* shape, whatever pages were accumulated; the caller's account, its stable
\* operations included, is never modified, in failed and successful runs alike.
C6_FailsAsAWhole ==
  /\ [](anyFailed => (shape = NoShape /\ pc # "returned"))
  /\ []((anyFailed /\ pc \notin {"awaitAll"}) => pc = "failed")
  /\ [][initialAccount' = initialAccount]_vars

\* a page request failed after pages had been accumulated onto stable operations
C6_Witness ==
  /\ anyFailed /\ pc = "failed" /\ Len(txs) > 0
  /\ accountReq = "done" /\ blockReq = "done"
  /\ initialAccount.exists /\ Len(initialAccount.operations) > 0

\* C7: the two requests are issued together before the await; no page is
\* requested before both have completed; an empty account returns the minimal
\* shape and an account of another kind fails, both without any page request.
C7_BothBeforePaging ==
  /\ (accountReq = "none") <=> (pc = "start")
  /\ (blockReq = "none") <=> (pc = "start")
  /\ requests # <<>> => (accountReq = "done" /\ blockReq = "done")
  /\ pc \in {"paging", "returned"} => (accountReq = "done" /\ blockReq = "done")
  /\ (pc = "returned" /\ apiAccount.type = "empty") =>
       (requests = <<>> /\
        shape = [tag |-> "minimal", blockHeight |-> blockHeight, lastSyncDate |-> Now])
  /\ (accountReq = "done" /\ apiAccount.type \notin {"empty", "user"}) =>
       (requests = <<>> /\ shape = NoShape /\ pc \in {"awaitAll", "failed"})

\* the block count completed first and the invocation still waits, no page requested
C7_Witness ==
  pc = "awaitAll" /\ blockReq = "done" /\ accountReq = "pending" /\ requests = <<>>

(***************************************************************************)
(* Properties of reconciliateSubAccounts (checked under SpecRec)           *)
(***************************************************************************)
\* a reconciliation has run against a previous sub-account list
Reconciled == syncNo > 0
WithPrevious == Reconciled /\ prevAccount.exists /\ prevAccount.subAccounts.defined

previous == prevAccount.subAccounts.items
output == subAccounts.items

HasPrevious(ta) == \E j \in 1..Len(previous) : previous[j].props.id = ta.props.id
PreviousOf(ta) ==
  previous[CHOOSE j \in 1..Len(previous) : previous[j].props.id = ta.props.id]

\* every key of either object has the same value on both
AllFieldsEqual(a, b) == \A i \in 1..Len(KeyOrder) : a.props[KeyOrder[i]] = b.props[KeyOrder[i]]

\* the output entry that stands for a derived sub-account
OutputFor(ta) ==
  {output[j] : j \in {j \in 1..Len(output) : output[j].props.id = ta.props.id}}

\* C1: with a previous list, a derived sub-account with a previous one of the
\* same id is output as the previous object if all fields of the two are equal
\* and as the derived object if any field differs, fields present on only one of
\* them included; one without previous entry is output as the derived object.
C1_PreviousIffAllFieldsEqual ==
  WithPrevious =>
    \A i \in 1..Len(tokenAccounts) :
      LET ta == tokenAccounts[i]
      IN OutputFor(ta) = IF HasPrevious(ta) /\ AllFieldsEqual(PreviousOf(ta), ta)
                         THEN {PreviousOf(ta)} ELSE {ta}

SameAsPrevious ==
  /\ IdsOf(tokenAccounts) = IdsOf(previous)
  /\ \A i \in 1..Len(tokenAccounts) :
       AllFieldsEqual(PreviousOf(tokenAccounts[i]), tokenAccounts[i])

SomethingChanged ==
  \/ Len(tokenAccounts) # Len(previous)
  \/ \E i \in 1..Len(tokenAccounts) :
       \/ ~HasPrevious(tokenAccounts[i])
       \/ ~AllFieldsEqual(PreviousOf(tokenAccounts[i]), tokenAccounts[i])

\* C2: when the derived sub-accounts have the ids and field values of the
\* previous output, the previous list instance is returned, its entries with it;
\* when the count differs, an entry is new or a field changed, a change note is
\* recorded and the previous list instance is not returned.
C2_ReuseIffNothingChanged ==
  WithPrevious =>
    /\ SameAsPrevious => subAccounts = prevAccount.subAccounts
    /\ SomethingChanged => (stats # <<>> /\ subAccounts # prevAccount.subAccounts)

SameIdsInOrder ==
  /\ Len(output) = Len(tokenAccounts)
  /\ \A i \in 1..Len(tokenAccounts) : output[i].props.id = tokenAccounts[i].props.id

\* C10 as stated: the output has the length of the derived list and, position
\* for position, the id of the derived entry.
C10_SameIdsPositionwise == Reconciled => SameIdsInOrder

\* C10 amended: the output has the length of the derived list and holds every
\* derived id; position for position the ids agree whenever the list returned
\* is not the previous list instance.
C10_SameIdsUnlessReused ==
  Reconciled =>
    /\ Len(output) = Len(tokenAccounts)
    /\ IdsOf(tokenAccounts) \subseteq IdsOf(output)
    /\ subAccounts # prevAccount.subAccounts => SameIdsInOrder

\* the previous list instance returned for a derivation in another order
C10_Witness ==
  /\ WithPrevious /\ subAccounts = prevAccount.subAccounts
  /\ Len(tokenAccounts) = 2
  /\ tokenAccounts[1].props.id # output[1].props.id
  /\ tokenAccounts[1].gen = syncNo

====
